---- MODULE Spec2Model ----
(***************************************************************************)
(* Model of the ingestion / classification / clustering pipeline of the    *)
(* AI Log Analyzer: run_pipeline (main.py), the file ledger File_Master    *)
(* (pipeline/core/database.py, pipeline/core/metadata.py), the file-level  *)
(* orchestrator (pipeline/components/orchestrator.py) and the line-level   *)
(* clusterer (processor.py).                                               *)
(*                                                                         *)
(* Representation.  File names are strings.  A path is a tuple of path     *)
(* components: <<"incoming", f>>, <<"staging", u>>, <<"processed", c, u>>. *)
(* The strings "N/A" and "Pending" that the code stores in path and        *)
(* summary columns are the one-element tuples <<"N/A">> and <<"Pending">>. *)
(* uuid.uuid4() is a fresh name taken from UuidNames.  A summary is the    *)
(* sequence of its lower-cased word tokens.  A confidence is in tenths.    *)
(***************************************************************************)
EXTENDS Integers, Sequences, FiniteSets, TLC

----------------------------------------------------------------------------
(* Bounds of the model *)

\* files that arrive in incoming/ over a whole behaviour
MaxFiles == 2
\* last value of the one-second wall clock
MaxClock == 2
\* invocations of run_pipeline over a whole behaviour
MaxRuns == 2
\* worker threads of the summarization pool
PoolSize == 2
\* direct calls of the ledger store API (insert / update_file_metadata)
MaxApiCalls == 1

----------------------------------------------------------------------------
(* The universe of files *)

\* original file names, in the order os.listdir reports them:
\*   a.log      a system log with severity markers
\*   API_b.log  a firewall log with severity markers, "API" in its name
\*   c.txt      a curriculum vitae
\*   d.csv      a table of audit events with severity and message columns
\*   e.png      an image
NameOrder == <<"a.log", "API_b.log", "c.txt", "d.csv", "e.png">>

Names == {NameOrder[i] : i \in 1..Len(NameOrder)}

\* names containing the substring "API" / "Email" (metadata.py:30,36)
APINames   == {"API_b.log"}
EmailNames == {}

\* extension class of a name (ingestor.py:40-80)
Kind(name) ==
  CASE name \in {"a.log", "API_b.log", "c.txt"} -> "text"
    [] name = "d.csv"                          -> "table"
    [] OTHER                                   -> "unsupported"

\* what the content of a file gives: the label and confidence (in tenths)
\* of the classifier capability, whether a log marker occurs in the text,
\* whether a column name contains a log indicator, and the summary of
\* the summarizer capability
Content(name) ==
  CASE name = "a.log" ->
         [label |-> "log", conf |-> 10, marker |-> TRUE, logCols |-> FALSE,
          summary |-> <<"total", "entries", "keywords:", "kernel", "boot">>]
    [] name = "API_b.log" ->
         [label |-> "log", conf |-> 10, marker |-> TRUE, logCols |-> FALSE,
          summary |-> <<"total", "entries", "keywords:", "firewall">>]
    [] name = "c.txt" ->
         [label |-> "cv", conf |-> 10, marker |-> FALSE, logCols |-> FALSE,
          summary |-> <<"total", "entries", "keywords:", "education", "skills">>]
    [] OTHER ->
         [label |-> "report", conf |-> 4, marker |-> FALSE, logCols |-> TRUE,
          summary |-> <<"total", "entries", "keywords:", "audit", "policy">>]

\* the names uuid4 hands out, in order
UuidNames == <<"u1", "u2", "u3", "u4", "u5", "u6", "u7", "u8">>

NA      == <<"N/A">>
Pending == <<"Pending">>

\* the elements of S in the order of the sequence ord
SeqOfSet(S, ord) == SelectSeq(ord, LAMBDA x : x \in S)

Range(s) == {s[i] : i \in 1..Len(s)}

----------------------------------------------------------------------------
(* Content classifier: UniversalIngestor.process_file *)

DocumentTypes == {"cv", "resume", "invoice", "report", "contract", "other_document"}

\* confidences are in tenths; the threshold of the low-confidence guard
\* is 0.6
ConfThreshold == 6

log_types == {"log", "system_log", "error_log", "application_log",
              "network_log", "security_log", "server_log", "audit_log"}

\* faulty classification: the low-confidence guard is missing
FileTypeNoGuard(kind, avail, textEmpty, raises, label, conf, logCols, marker) ==
  LET base == IF kind = "table" THEN "structured_data" ELSE "unknown"
      fallback == IF base = "unknown" THEN "log" ELSE base
      t1 == IF kind = "table" /\ logCols THEN "log"
            ELSE IF base = "structured_data"
                 THEN (IF label \in log_types THEN "log" ELSE label)
                 ELSE label
  IN IF avail /\ ~textEmpty /\ ~raises THEN t1 ELSE fallback

\* file_type computed by process_file for content that was read:
\* kind is "text" or "table"; avail: the classifier could be loaded;
\* textEmpty: text_to_classify is empty; raises: classify_file raised;
\* label, conf: what classify_file returned; logCols: a column name
\* contains a log indicator; marker: a log marker occurs in the text.
FileType(kind, avail, textEmpty, raises, label, conf, logCols, marker) ==
  LET base == IF kind = "table" THEN "structured_data" ELSE "unknown"
      fallback == IF base = "unknown" THEN "log" ELSE base
      t1 == IF kind = "table" /\ logCols THEN "log"
            ELSE IF base = "structured_data"
                 THEN (IF label \in log_types THEN "log" ELSE label)
                 ELSE label
  IN IF avail /\ ~textEmpty
     THEN IF raises THEN fallback
          ELSE IF t1 = "log" /\ conf < ConfThreshold /\ ~marker
               THEN "other_document" ELSE t1
     ELSE fallback

\* faulty dispatch: every extension is read as text
ExtKindAllText(ext) == "text"

\* extension class of an extension (ingestor.py:40-80)
ExtKind(ext) ==
  CASE ext \in {"txt", "log", "pdf"}              -> "text"
    [] ext \in {"csv", "xlsx", "xls", "parquet"}  -> "table"
    [] OTHER                                      -> "unsupported"

\* how the classifier came up: "ai" the zero-shot model is loaded;
\* "fallback" get_classifier() returned an instance whose model could not
\* be loaded (transformers missing or _initialize_model failed);
\* "none" get_classifier could not be imported or constructed
ClassifierStates == {"ai", "fallback", "none"}

Min(a, b) == IF a <= b THEN a ELSE b

\* _classify_with_fallback: keyword scores of the lower-cased content; the
\* first entry of the scores dictionary with the highest score wins and
\* its confidence is score/10 capped at 0.9; without any keyword the
\* extension decides
classify_with_fallback(log_score, cv_score, ext) ==
  IF log_score > 0 \/ cv_score > 0
  THEN IF log_score >= cv_score
       THEN <<"log", Min(log_score, 9)>>
       ELSE <<"cv", Min(cv_score, 9)>>
  ELSE IF ext \in {"log", "txt"} THEN <<"log", 6>> ELSE <<"other_document", 5>>

\* classify_file for non-empty content: <<category, confidence>>.
\* fastMarker: the content contains a marker of the .log fast path
classify_file(ext, fastMarker, state, aiLabel, aiConf, log_score, cv_score) ==
  IF ext = "log" /\ fastMarker THEN <<"log", 10>>
  ELSE IF state = "ai" THEN <<aiLabel, aiConf>>
  ELSE classify_with_fallback(log_score, cv_score, ext)

\* process_file on one file: what it returns as content ("None", or the
\* kind of content read) and as file type, with the classification used
process_file(in) ==
  LET kind == ExtKind(in.ext)
      cls == classify_file(in.ext, in.fastMarker, in.classifier, in.aiLabel,
                           in.aiConf, in.log_score, in.cv_score)
  IN IF kind = "unsupported"
     THEN [content |-> "None", file_type |-> "unsupported", cls |-> <<>>]
     ELSE IF ~in.readOk
     THEN [content |-> "None", file_type |-> "error", cls |-> <<>>]
     ELSE [content |-> kind,
           file_type |-> FileType(kind, in.classifier # "none", in.textEmpty,
                                  in.raises, cls[1], cls[2], in.logCols, in.marker),
           cls |-> cls]

\* the file type process_file returns for this file once it is read
FileTypeOf(name, avail) ==
  LET c == Content(name)
  IN FileType(Kind(name), avail, FALSE, FALSE, c.label, c.conf, c.logCols, c.marker)

----------------------------------------------------------------------------
(* Cluster resolver: determine_category *)

DomainOrder == <<"agreement", "system_log", "app_log", "governance_log">>

DOMAIN_KEYWORDS(cat) ==
  CASE cat = "agreement"      -> {"contract", "signed", "nda", "terms", "agreement"}
    [] cat = "system_log"     -> {"cpu", "disk", "kernel", "boot", "service",
                                  "windows", "linux", "server"}
    [] cat = "app_log"        -> {"login", "http", "api", "json", "exception",
                                  "stacktrace", "request", "response"}
    [] cat = "governance_log" -> {"audit", "policy", "compliance", "gdpr",
                                  "security", "access"}

stop_words == {"total", "entries", "keywords", "summary", "unknown", "file", "log",
               "data", "text", "error", "info", "warn", "fail", "failed", "sample"}

\* `term in text` is a substring test: a keyword occurs in a word that is
\* the keyword or contains it ("service" in "services", "api" in "capital")
Occurs(term, word) ==
  \/ word = term
  \/ <<term, word>> \in {<<"service", "services">>, <<"api", "capital">>}

\* number of keywords of the domain that occur in the text
Score(cat, text) ==
  Cardinality({term \in DOMAIN_KEYWORDS(cat) :
                 \E i \in 1..Len(text) : Occurs(term, text[i])})

\* faulty scan: a later domain replaces the best match on an equal score
RECURSIVE BestMatchLastWins(_, _, _, _)
BestMatchLastWins(text, i, best, highest) ==
  IF i > Len(DomainOrder) THEN best
  ELSE LET s == Score(DomainOrder[i], text)
       IN IF s > 0 /\ s >= highest
          THEN BestMatchLastWins(text, i + 1, DomainOrder[i], s)
          ELSE BestMatchLastWins(text, i + 1, best, highest)

\* the scan of lines 25-29: a later domain replaces the best match only
\* with a strictly higher score
RECURSIVE BestMatch(_, _, _, _)
BestMatch(text, i, best, highest) ==
  IF i > Len(DomainOrder) THEN best
  ELSE LET s == Score(DomainOrder[i], text)
       IN IF s > highest THEN BestMatch(text, i + 1, DomainOrder[i], s)
          ELSE BestMatch(text, i + 1, best, highest)

\* the token "keywords:" is the word followed by a colon, as the summarizer
\* writes it; "keywords" is the bare word

\* faulty split: the text after the first "keywords:"
AfterFirstKeywords(text) ==
  LET occ == {i \in 1..Len(text) : text[i] = "keywords:"}
  IN IF occ = {} THEN text
     ELSE LET first == CHOOSE i \in occ : \A j \in occ : i <= j
          IN SubSeq(text, first + 1, Len(text))

\* text.split("keywords:")[-1]: the text after the last "keywords:", the
\* whole text without one
AfterKeywords(text) ==
  LET occ == {i \in 1..Len(text) : text[i] = "keywords:"}
  IN IF occ = {} THEN text
     ELSE LET last == CHOOSE i \in occ : \A j \in occ : j <= i
          IN SubSeq(text, last + 1, Len(text))

\* words of fewer than three letters
ShortWords == {"db", "ip"}

\* re.findall(r'[a-z]{3,}', ...): the runs of at least three letters
FindWords(text) == SelectSeq(text, LAMBDA w : w \notin ShortWords)

determine_category(text) ==
  LET best == BestMatch(text, 1, "none", 0)
      words == SelectSeq(FindWords(AfterKeywords(text)), LAMBDA w : w \notin stop_words)
  IN IF best # "none" THEN best
     ELSE IF Len(words) > 0 THEN words[1]
     ELSE "unstructured_log"

\* the empty summary stands for "", None and whitespace
EmptySummary == <<>>

\* labels of hdbscan.fit_predict; "-1" is noise
NoiseLabel    == "-1"
ClusterLabels == {"-1", "0"}

\* categories run_clustering (line-level mode) assigns to a source file
LineCategories == {"unstructured_log", "app_log"}

----------------------------------------------------------------------------
(* State *)

VARIABLES
  disk,      \* the paths of the regular files that exist
  ledger,    \* the committed rows of table File_Master, in insertion order
  now,       \* the wall clock, in seconds
  origin,    \* origin[k]: the original name of the file renamed to UuidNames[k]
  arrived,   \* number of files dropped into incoming/ so far
  apiCalls,  \* number of direct calls of the ledger store API so far
  started,   \* number of invocations of run_pipeline so far
  classifierAvailable, \* the classifier module can be loaded in this process
  run,       \* the locals of each invocation of run_pipeline
  call       \* one application of a function of the pipeline: input and result

vars == <<disk, ledger, now, origin, arrived, apiCalls, started,
          classifierAvailable, run, call>>

\* identifiers of the invocations of run_pipeline
Runs == {1, 2}

IdleRun ==
  [ pc |-> "idle", mode |-> "large",
    files_list |-> <<>>, idx |-> 1,
    results |-> <<>>,          \* keys of results, in insertion order
    file_tracking |-> {},      \* entries [name, path]
    log_files |-> {},          \* keys of log_files (new names)
    document_files |-> {},     \* entries [name, type, path, new_name]
    skipped |-> {},            \* files whose own processing failed or was skipped
    baseLen |-> 0,             \* number of ledger rows when the run started
    fileIds |-> <<>>,          \* File_IDs generate_metadata_report computed
    files_to_process |-> <<>>, \* listing of staging/
    tasks |-> <<>>,            \* one summarization task per listed file
    file_summaries |-> <<>>,   \* entries [file_name, summary]
    rows |-> <<>>,             \* rows of clustered_df
    rowIdx |-> 1,
    updates |-> <<>>,
    updResult |-> "none",      \* outcome of update_master_report
    updApplied |-> 0 ]         \* updates applied in the session before it ended

\* no function application is being observed
NoCall == [op |-> "none"]

Init ==
  /\ disk = {}
  /\ ledger = <<>>
  /\ now = 0
  /\ origin = <<>>
  /\ arrived = 0
  /\ apiCalls = 0
  /\ started = 0
  /\ classifierAvailable \in BOOLEAN
  /\ run = [r \in Runs |-> IdleRun]
  /\ call = NoCall

\* os.path.exists / os.path.isfile
Exists(d, path) == path \in d

\* os.listdir of incoming/ and of staging/, regular files only
ListIncoming(d) == SeqOfSet({p[2] : p \in {q \in d : q[1] = "incoming"}}, NameOrder)
ListStaging(d)  == SeqOfSet({p[2] : p \in {q \in d : q[1] = "staging"}}, UuidNames)

IncomingPath(name)      == <<"incoming", name>>
StagingPath(name)       == <<"staging", name>>
ProcessedPath(cat, name) == <<"processed", cat, name>>

\* os.path.basename
Basename(path) == path[Len(path)]

AllIdle == \A r \in Runs : run[r].pc = "idle"

----------------------------------------------------------------------------
(* Environment *)

\* a file is dropped into incoming/ (between runs)
Arrive(name) ==
  /\ AllIdle
  /\ arrived < MaxFiles
  /\ IncomingPath(name) \notin disk
  /\ disk' = disk \cup {IncomingPath(name)}
  /\ arrived' = arrived + 1
  /\ UNCHANGED <<call, classifierAvailable, ledger, now, origin, apiCalls, started, run>>

----------------------------------------------------------------------------
(* run_pipeline: setup and ingestion (main.py:38-113) *)

StartRun(r, mode) ==
  /\ run[r].pc = "idle"
  /\ started < MaxRuns
  /\ started' = started + 1
  /\ LET fl == ListIncoming(disk)
     IN run' = [run EXCEPT ![r] =
                  [IdleRun EXCEPT !.pc = IF fl = <<>> THEN "meta" ELSE "ingest",
                                  !.mode = mode,
                                  !.files_list = fl,
                                  !.baseLen = Len(ledger)]]
  /\ UNCHANGED <<call, classifierAvailable, disk, ledger, now, origin, arrived, apiCalls>>

\* faulty routing: every file goes to staging
RouteAllToStaging(file_type, new_name) == StagingPath(new_name)

\* destination of a file of this type (main.py:77-113)
Route(file_type, new_name) ==
  IF file_type = "log" THEN StagingPath(new_name)
  ELSE IF file_type \in DocumentTypes THEN ProcessedPath(file_type, new_name)
  ELSE IF file_type = "structured_data" THEN ProcessedPath("structured_data", new_name)
  ELSE StagingPath(new_name)

\* the file goes to staging and is tracked (main.py:77-83, 107-113)
IsStaged(file_type) ==
  file_type = "log" \/ (file_type \notin DocumentTypes /\ file_type # "structured_data")

AfterFile(r) == IF run[r].idx = Len(run[r].files_list) THEN "meta" ELSE "ingest"

\* process_file returned no content, or raised: the file is skipped
IngestSkip(r) ==
  /\ run[r].pc = "ingest"
  /\ LET name == run[r].files_list[run[r].idx]
     IN run' = [run EXCEPT ![r].idx = @ + 1,
                           ![r].skipped = @ \cup {name},
                           ![r].pc = AfterFile(r)]
  /\ UNCHANGED <<call, classifierAvailable, disk, ledger, now, origin, arrived, apiCalls, started>>

\* the locals of run r after the file name was moved to dest_path under
\* new_name (main.py:77-113)
RoutedRun(r, name, new_name, file_type, dest_path) ==
  [run[r] EXCEPT
     !.idx = @ + 1,
     !.pc = AfterFile(r),
     !.file_tracking =
        IF IsStaged(file_type)
        THEN {e \in @ : e.name # name} \cup {[name |-> name, path |-> dest_path]}
        ELSE @,
     !.log_files = IF IsStaged(file_type) THEN @ \cup {new_name} ELSE @,
     !.document_files =
        IF file_type \in DocumentTypes
        THEN @ \cup {[name |-> name, type |-> file_type,
                      path |-> dest_path, new_name |-> new_name]}
        ELSE @]

\* process_file returned content and a type: the file is renamed and moved;
\* shutil.move is outside the try block, so its exception ends the run
IngestFile(r) ==
  /\ run[r].pc = "ingest"
  /\ Len(origin) < Len(UuidNames)
  /\ LET name == run[r].files_list[run[r].idx]
         source_path == IncomingPath(name)
         new_name == UuidNames[Len(origin) + 1]
         file_type == FileTypeOf(name, classifierAvailable)
     IN /\ Kind(name) # "unsupported"
        /\ Exists(disk, source_path)
        /\ \E moveOk \in BOOLEAN :
             LET dest_path == Route(file_type, new_name)
             IN IF moveOk
                THEN /\ disk' = (disk \ {source_path}) \cup {dest_path}
                     /\ run' = [run EXCEPT ![r] =
                          [RoutedRun(r, name, new_name, file_type, dest_path)
                             EXCEPT !.results = Append(@, name)]]
                ELSE /\ disk' = disk
                     /\ run' = [run EXCEPT
                          ![r].pc = "aborted",
                          ![r].results = Append(@, name)]
        /\ origin' = Append(origin, name)
  /\ UNCHANGED <<call, classifierAvailable, ledger, now, arrived, apiCalls, started>>

\* the first half of the loop body, when another thread can run before the
\* second: process_file has read and typed the file (main.py:61-71)
ProcessFile(r) ==
  /\ run[r].pc = "ingest"
  /\ LET name == run[r].files_list[run[r].idx]
     IN /\ Kind(name) # "unsupported"
        /\ Exists(disk, IncomingPath(name))
        /\ run' = [run EXCEPT ![r].pc = "route",
                              ![r].results = Append(@, name)]
  /\ UNCHANGED <<call, classifierAvailable, disk, ledger, now, origin, arrived, apiCalls, started>>

\* the second half (main.py:73-113): the file is moved under a new name;
\* if it is no longer in incoming/, shutil.move raises and ends the run
RouteFile(r) ==
  /\ run[r].pc = "route"
  /\ Len(origin) < Len(UuidNames)
  /\ LET name == run[r].files_list[run[r].idx]
         source_path == IncomingPath(name)
         new_name == UuidNames[Len(origin) + 1]
         file_type == FileTypeOf(name, classifierAvailable)
         dest_path == Route(file_type, new_name)
     IN IF Exists(disk, source_path)
        THEN /\ disk' = (disk \ {source_path}) \cup {dest_path}
             /\ run' = [run EXCEPT ![r] =
                          RoutedRun(r, name, new_name, file_type, dest_path)]
        ELSE /\ disk' = disk
             /\ run' = [run EXCEPT ![r].pc = "aborted"]
  /\ origin' = Append(origin, run[r].files_list[run[r].idx])
  /\ UNCHANGED <<call, classifierAvailable, ledger, now, arrived, apiCalls, started>>

----------------------------------------------------------------------------
(* The ledger: table File_Master and generate_metadata_report *)

\* File_ID of a record created at second ts (metadata.py:53)
BatchId(ts) == <<"AUDIT", ts>>

\* the record generate_metadata_report builds for one key of results
\* (metadata.py:22-71)
MetadataRecord(original_name, file_tracking, d, ts, created) ==
  LET tracked == {e \in file_tracking : e.name = original_name}
      isApi == original_name \in APINames
      storage_path == IF ~isApi /\ tracked # {}
                      THEN (CHOOSE e \in tracked : TRUE).path ELSE NA
      stored_filename == IF storage_path # NA /\ Exists(d, storage_path)
                         THEN Basename(storage_path) ELSE "N/A"
      source == IF isApi THEN "External API"
                ELSE IF tracked # {} /\ original_name \in EmailNames
                     THEN "Email Attachment" ELSE "Local Upload"
      status == IF isApi \/ tracked # {} THEN "Success" ELSE "Failed"
  IN [ File_ID |-> BatchId(ts),
       Original_Filename |-> original_name,
       Stored_Filename |-> stored_filename,
       Source_Type |-> source,
       Raw_Storage_Path |-> storage_path,
       Final_Path |-> Pending,
       Category |-> "Pending",
       Cluster_ID |-> "N/A",
       Summary |-> NA,
       Status |-> status,
       Created_On |-> created ]

\* constraint File_ID TEXT UNIQUE of table File_Master (database.py:45):
\* the rows new can be inserted after the rows old
UniqueFileIds(old, new) ==
  /\ \A i \in 1..Len(new) : \A j \in 1..Len(old) : new[i].File_ID # old[j].File_ID
  /\ \A i, j \in 1..Len(new) : i # j => new[i].File_ID # new[j].File_ID

\* faulty rollback: the rows of the session are kept
RollbackKeepsSession(committed, session) == session

\* db.rollback(): the rows of the session are dropped, the committed rows stay
Rollback(committed, session) == committed

\* db.commit(): the rows of the session become the committed rows
Commit(committed, session) == session

RECURSIVE SumTo(_, _)
SumTo(f, i) == IF i = 0 THEN 0 ELSE f[i] + SumTo(f, i - 1)

\* the stage that follows the initial metadata (main.py:119-151)
AfterMeta(r) ==
  IF run[r].log_files = {} THEN "done"
  ELSE IF run[r].mode = "large" THEN "list" ELSE "small"

\* step 3 of run_pipeline: one record per key of results, in one
\* transaction; ticks[i] tells whether the clock advanced before record i
GenerateMetadataReport(r) ==
  /\ run[r].pc = "meta"
  /\ LET results == run[r].results
         n == Len(results)
     IN IF n = 0
        THEN /\ run' = [run EXCEPT ![r].pc = AfterMeta(r)]
             /\ UNCHANGED <<ledger, now>>
        ELSE \E ticks \in [1..n -> {0, 1}] :
               /\ now + SumTo(ticks, n) <= MaxClock
               /\ LET new == [i \in 1..n |->
                                MetadataRecord(results[i], run[r].file_tracking, disk,
                                               now + SumTo(ticks, i), Len(ledger) + i)]
                  IN /\ ledger' = IF UniqueFileIds(ledger, new)
                                  THEN Commit(ledger, ledger \o new)
                                  ELSE Rollback(ledger, ledger \o new)
                     /\ run' = [run EXCEPT
                                  ![r].pc = AfterMeta(r),
                                  ![r].fileIds = [i \in 1..n |-> new[i].File_ID]]
               /\ now' = now + SumTo(ticks, n)
  /\ UNCHANGED <<call, classifierAvailable, disk, origin, arrived, apiCalls, started>>

----------------------------------------------------------------------------
(* run_large_scale_pipeline (orchestrator.py:73-160) *)

\* step 1: the listing of staging/
ListStagingFiles(r) ==
  /\ run[r].pc = "list"
  /\ LET ftp == ListStaging(disk)
     IN run' = [run EXCEPT
                  ![r].files_to_process = ftp,
                  ![r].tasks = [i \in 1..Len(ftp) |->
                                  [st |-> "queued", result |-> EmptySummary]],
                  ![r].pc = IF ftp = <<>> THEN "done" ELSE "summarize"]
  /\ UNCHANGED <<call, classifierAvailable, disk, ledger, now, origin, arrived, apiCalls, started>>

Running(tasks) == {i \in 1..Len(tasks) : tasks[i].st = "running"}

\* what summarize_single_file / summarize_file can return for a staged
\* file: the summary of its content, or None / "" on failure
OriginOf(stored) == origin[CHOOSE k \in 1..Len(origin) : UuidNames[k] = stored]
SummaryResults(stored) == {Content(OriginOf(stored)).summary, EmptySummary}

\* a worker of the pool takes a task (more than one file listed)
TaskStart(r, i) ==
  /\ run[r].pc = "summarize"
  /\ Len(run[r].tasks) > 1
  /\ i \in 1..Len(run[r].tasks)
  /\ run[r].tasks[i].st = "queued"
  /\ Cardinality(Running(run[r].tasks)) < PoolSize
  /\ run' = [run EXCEPT ![r].tasks[i].st = "running"]
  /\ UNCHANGED <<call, classifierAvailable, disk, ledger, now, origin, arrived, apiCalls, started>>

\* the worker returns the summary, or None / "" on failure
TaskFinish(r, i) ==
  /\ run[r].pc = "summarize"
  /\ i \in 1..Len(run[r].tasks)
  /\ run[r].tasks[i].st = "running"
  /\ \E summary \in SummaryResults(run[r].files_to_process[i]) :
       run' = [run EXCEPT ![r].tasks[i] = [st |-> "done", result |-> summary]]
  /\ UNCHANGED <<call, classifierAvailable, disk, ledger, now, origin, arrived, apiCalls, started>>

\* one file listed: it is summarized by the calling thread
SummarizeSingle(r) ==
  /\ run[r].pc = "summarize"
  /\ Len(run[r].tasks) = 1
  /\ run[r].tasks[1].st = "queued"
  /\ \E summary \in SummaryResults(run[r].files_to_process[1]) :
       run' = [run EXCEPT ![r].tasks[1] = [st |-> "done", result |-> summary]]
  /\ UNCHANGED <<call, classifierAvailable, disk, ledger, now, origin, arrived, apiCalls, started>>

\* faulty join: returns as soon as one task has returned
SomeReturned(tasks) == \E i \in 1..Len(tasks) : tasks[i].st = "done"

\* list(executor.map(...)) inside the with block returns when every task
\* has returned
AllReturned(tasks) == \A i \in 1..Len(tasks) : tasks[i].st = "done"

\* the results are zipped with the listing; empty summaries are skipped
FileSummaries(ftp, tasks) ==
  LET kept == SelectSeq([i \in 1..Len(ftp) |-> i],
                        LAMBDA i : tasks[i].st = "done" /\ tasks[i].result # EmptySummary)
  IN [k \in 1..Len(kept) |->
        [file_name |-> ftp[kept[k]], summary |-> tasks[kept[k]].result]]

CollectSummaries(r) ==
  /\ run[r].pc = "summarize"
  /\ AllReturned(run[r].tasks)
  /\ LET fs == FileSummaries(run[r].files_to_process, run[r].tasks)
     IN run' = [run EXCEPT ![r].file_summaries = fs,
                           ![r].pc = IF fs = <<>> THEN "done" ELSE "cluster"]
  /\ UNCHANGED <<call, classifierAvailable, disk, ledger, now, origin, arrived, apiCalls, started>>

\* minimum number of vectors for HDBSCAN, and its min_cluster_size
MinClusterSize == 3

\* faulty guard: the clustering algorithm runs on every input
AnyLabelings(n) == [1..n -> ClusterLabels]

\* the label vectors cluster_files can produce for n embeddings
\* (clustering.py:5-15)
ClusterLabelings(n) ==
  IF n < MinClusterSize THEN {[i \in 1..n |-> NoiseLabel]}
  ELSE {l \in [1..n -> ClusterLabels] :
          \A c \in ClusterLabels \ {NoiseLabel} :
            LET members == {i \in 1..n : l[i] = c}
            IN members = {} \/ Cardinality(members) >= MinClusterSize}

\* clustered_df: one row per entry of file_summaries, in its order, with
\* the label of its vector and the category of its own summary
\* (clustering.py:17-21, orchestrator.py:131)
ClusteredRows(fs, labels) ==
  [i \in 1..Len(fs) |->
     [file_name |-> fs[i].file_name,
      summary |-> fs[i].summary,
      cluster_id |-> labels[i],
      Category |-> determine_category(fs[i].summary)]]

\* steps 3-5a: embed, cluster, assign a category to every row
ClusterFiles(r) ==
  /\ run[r].pc = "cluster"
  /\ LET fs == run[r].file_summaries
     IN \E labels \in ClusterLabelings(Len(fs)) :
          run' = [run EXCEPT
                    ![r].rows = ClusteredRows(fs, labels),
                    ![r].rowIdx = 1,
                    ![r].pc = "move"]
  /\ UNCHANGED <<call, classifierAvailable, disk, ledger, now, origin, arrived, apiCalls, started>>

\* the update emitted for a moved row
UpdateOf(row, dest_path) ==
  [ Stored_Filename |-> row.file_name, Category |-> row.Category,
    Final_Path |-> dest_path, Cluster_ID |-> row.cluster_id,
    Summary |-> row.summary ]

\* faulty loop: an update is emitted for every row
UpdateAlwaysEmitted(exists, moveOk) == TRUE

\* updates.append is reached when the file exists in staging and
\* shutil.move has not raised
UpdateEmitted(exists, moveOk) == exists /\ moveOk

\* one iteration of the move loop (orchestrator.py:135-160,
\* processor.py:114-139): the file is moved if it is still in staging; a
\* failed move is logged and emits no update
MoveRow(r, nextPc) ==
  LET row == run[r].rows[run[r].rowIdx]
      source_path == StagingPath(row.file_name)
      dest_path == ProcessedPath(row.Category, row.file_name)
      last == run[r].rowIdx = Len(run[r].rows)
  IN \E moveOk \in BOOLEAN :
       LET moved == Exists(disk, source_path) /\ moveOk
           updates == IF UpdateEmitted(Exists(disk, source_path), moveOk)
                      THEN Append(run[r].updates, UpdateOf(row, dest_path))
                      ELSE run[r].updates
       IN /\ disk' = IF moved THEN (disk \ {source_path}) \cup {dest_path} ELSE disk
          /\ run' = [run EXCEPT
                       ![r].updates = updates,
                       ![r].rowIdx = @ + 1,
                       ![r].pc = IF ~last THEN nextPc
                                 ELSE IF updates = <<>> THEN "done" ELSE "update"]

MoveFile(r) ==
  /\ run[r].pc = "move"
  /\ MoveRow(r, "move")
  /\ UNCHANGED <<call, classifierAvailable, ledger, now, origin, arrived, apiCalls, started>>

----------------------------------------------------------------------------
(* update_master_report (metadata.py:90-129) *)

\* positions of the rows with this Stored_Filename
Matching(rows, stored_name) ==
  {i \in 1..Len(rows) : rows[i].Stored_Filename = stored_name}

\* faulty query: the oldest row is taken
Oldest(rows, idxs) ==
  CHOOSE i \in idxs : \A j \in idxs : rows[i].Created_On <= rows[j].Created_On

\* order_by(Created_On.desc()).first()
MostRecent(rows, idxs) ==
  CHOOSE i \in idxs : \A j \in idxs : rows[j].Created_On <= rows[i].Created_On

\* the columns update_master_report copies from an update
ReportColumns == {"Category", "Final_Path", "Cluster_ID", "Summary"}

\* lines 104-120 for one update: an update without Stored_Filename ("" for
\* a missing or empty value) is passed over; of the keys of the update only
\* the four columns are copied, and the Status becomes Processed
ApplyUpdate(rows, update) ==
  LET idxs == Matching(rows, update.Stored_Filename)
  IN IF update.Stored_Filename = "" \/ idxs = {} THEN rows
     ELSE [rows EXCEPT ![MostRecent(rows, idxs)] =
             [c \in DOMAIN @ |->
                IF c = "Status" THEN "Processed"
                ELSE IF c \in ReportColumns \cap DOMAIN update THEN update[c]
                ELSE @[c]]]

\* the first k updates applied in order
RECURSIVE ApplyUpdates(_, _, _)
ApplyUpdates(rows, updates, k) ==
  IF k = 0 THEN rows
  ELSE ApplyUpdate(ApplyUpdates(rows, updates, k - 1), updates[k])

\* step 5 of run_pipeline: the updates are applied in one session; the
\* store may fail after k of them (or at the commit), which is caught and
\* rolled back
UpdateMasterReport(r) ==
  /\ run[r].pc = "update"
  /\ \E k \in 0..Len(run[r].updates), failed \in BOOLEAN :
       /\ failed \/ k = Len(run[r].updates)
       /\ LET session == ApplyUpdates(ledger, run[r].updates, k)
          IN ledger' = IF failed THEN Rollback(ledger, session)
                       ELSE Commit(ledger, session)
       /\ run' = [run EXCEPT ![r].pc = "done",
                             ![r].updResult = IF failed THEN "failed" ELSE "ok",
                             ![r].updApplied = k]
  /\ UNCHANGED <<call, classifierAvailable, disk, now, origin, arrived, apiCalls, started>>

----------------------------------------------------------------------------
(* run_clustering, the line-level mode (processor.py:17-141) *)

LineSummary(cat) ==
  <<"processed", "via", "hdbscan", "clustering", "majority", "category", cat>>

\* steps 1-5: every listed file that yields at least one log line becomes
\* a source file with a majority category
RunClustering(r) ==
  /\ run[r].pc = "small"
  /\ LET listing == ListStaging(disk)
         n == Len(listing)
     IN \E loaded \in [1..n -> BOOLEAN], cats \in [1..n -> LineCategories] :
          LET kept == SelectSeq([i \in 1..n |-> i], LAMBDA i : loaded[i])
              rows == [k \in 1..Len(kept) |->
                         [file_name |-> listing[kept[k]],
                          summary |-> LineSummary(cats[kept[k]]),
                          cluster_id |-> "Line-Level",
                          Category |-> cats[kept[k]]]]
          IN /\ \A i \in 1..n : ~loaded[i] => cats[i] = "unstructured_log"
             /\ run' = [run EXCEPT ![r].files_to_process = listing,
                                   ![r].rows = rows,
                                   ![r].rowIdx = 1,
                                   ![r].pc = IF rows = <<>> THEN "done" ELSE "smove"]
  /\ UNCHANGED <<call, classifierAvailable, disk, ledger, now, origin, arrived, apiCalls, started>>

\* step 6: the source files are moved
MoveSourceFile(r) ==
  /\ run[r].pc = "smove"
  /\ MoveRow(r, "smove")
  /\ UNCHANGED <<call, classifierAvailable, ledger, now, origin, arrived, apiCalls, started>>

\* run_pipeline returns, or ends with the exception of a failed move
FinishRun(r) ==
  /\ run[r].pc \in {"done", "aborted"}
  /\ run' = [run EXCEPT ![r] = IdleRun]
  /\ UNCHANGED <<call, classifierAvailable, disk, ledger, now, origin, arrived, apiCalls, started>>

----------------------------------------------------------------------------
(* The store API of the ledger (database.py:166-227) *)

\* the entry of the store's own test (verify_file_master_db.py:22-37)
TestEntry(ts, created) ==
  [ File_ID |-> <<"TEST", ts>>,
    Original_Filename |-> "test_log.txt",
    Stored_Filename |-> "abc123.txt",
    Source_Type |-> "Local Upload",
    Raw_Storage_Path |-> <<"tmp", "test.txt">>,
    Final_Path |-> Pending,
    Category |-> "Pending",
    Cluster_ID |-> "N/A",
    Summary |-> NA,
    Status |-> "Success",
    Created_On |-> created ]

\* insert_file_metadata on the table rows: a row that violates the UNIQUE
\* constraint is rejected, the exception is logged and nothing is returned
insert_file_metadata(rows, entry) ==
  IF UniqueFileIds(rows, <<entry>>) THEN Append(rows, entry) ELSE rows

InsertFileMetadata ==
  /\ apiCalls < MaxApiCalls
  /\ \E tick \in {0, 1} :
       /\ now + tick <= MaxClock
       /\ now' = now + tick
       /\ ledger' = insert_file_metadata(ledger, TestEntry(now', Len(ledger) + 1))
  /\ apiCalls' = apiCalls + 1
  /\ UNCHANGED <<call, classifierAvailable, disk, origin, arrived, started, run>>

\* the partial updates passed to update_file_metadata in this model: the
\* one of the store's test, and single-column updates
ApiUpdates ==
  { [ Category |-> "app_log",
      Final_Path |-> ProcessedPath("app_log", "abc123.txt"),
      Status |-> "Processed",
      Summary |-> <<"test", "summary">> ] }
  \cup { [Status |-> s] : s \in {"Pending", "Success", "Processed"} }
  \cup { [Category |-> "governance_log"] }

\* UPDATE File_Master SET key = value, ... for one row
SetColumns(row, updates) ==
  [c \in DOMAIN row |-> IF c \in DOMAIN updates THEN updates[c] ELSE row[c]]

\* update_file_metadata on the table rows: every row with this
\* Stored_Filename is updated
update_file_metadata(rows, stored_filename, updates) ==
  [i \in 1..Len(rows) |->
     IF rows[i].Stored_Filename = stored_filename
     THEN SetColumns(rows[i], updates) ELSE rows[i]]

UpdateFileMetadata(stored_filename, updates) ==
  /\ apiCalls < MaxApiCalls
  /\ ledger' = update_file_metadata(ledger, stored_filename, updates)
  /\ apiCalls' = apiCalls + 1
  /\ UNCHANGED <<call, classifierAvailable, disk, now, origin, arrived, started, run>>

----------------------------------------------------------------------------
(* Specifications *)

Modes == {"large", "small"}

\* the steps of invocation r of run_pipeline
RunStep(r) ==
  \/ \E mode \in Modes : StartRun(r, mode)
  \/ IngestSkip(r)
  \/ IngestFile(r)
  \/ GenerateMetadataReport(r)
  \/ ListStagingFiles(r)
  \/ \E i \in 1..MaxFiles : TaskStart(r, i)
  \/ \E i \in 1..MaxFiles : TaskFinish(r, i)
  \/ SummarizeSingle(r)
  \/ CollectSummaries(r)
  \/ ClusterFiles(r)
  \/ MoveFile(r)
  \/ UpdateMasterReport(r)
  \/ RunClustering(r)
  \/ MoveSourceFile(r)
  \/ FinishRun(r)

\* runs of the pipeline one after the other (CLI use)
Next ==
  \/ \E name \in Names : Arrive(name)
  \/ RunStep(1)

Spec == Init /\ [][Next]_vars

\* the pipeline together with direct callers of the store API
LedgerNext ==
  \/ Next
  \/ InsertFileMetadata
  \/ \E i \in 1..Len(ledger), u \in ApiUpdates :
       UpdateFileMetadata(ledger[i].Stored_Filename, u)

SpecLedger == Init /\ [][LedgerNext]_vars

\* the files in incoming/ when two runs overlap
RacingNames == {"a.log", "c.txt", "e.png"}

\* two invocations of run_pipeline at the same time: a second /process
\* request is accepted while the background task of the first is still
\* running, and each task runs in its own thread (api.py:265-276)
NextConcurrent ==
  \/ \E name \in RacingNames : started = 0 /\ Arrive(name)
  \/ \E mode \in Modes : started = 0 /\ StartRun(1, mode)
  \/ \E mode \in Modes : started = 1 /\ run[1].pc # "idle" /\ StartRun(2, mode)
  \/ \E r \in Runs :
       \/ IngestSkip(r)
       \/ IngestFile(r)
       \/ ProcessFile(r)
       \/ RouteFile(r)
       \/ GenerateMetadataReport(r)
       \/ ListStagingFiles(r)
       \/ \E i \in 1..MaxFiles : TaskStart(r, i)
       \/ \E i \in 1..MaxFiles : TaskFinish(r, i)
       \/ SummarizeSingle(r)
       \/ CollectSummaries(r)
       \/ ClusterFiles(r)
       \/ MoveFile(r)
       \/ UpdateMasterReport(r)
       \/ RunClustering(r)
       \/ MoveSourceFile(r)
       \/ FinishRun(r)

SpecConcurrent == Init /\ [][NextConcurrent]_vars

----------------------------------------------------------------------------
(* Function-level specifications: one application of a function of the     *)
(* pipeline to an input drawn from a bounded set, the pipeline at rest      *)

Quiescent ==
  /\ disk = {}
  /\ ledger = <<>>
  /\ now = 0
  /\ origin = <<>>
  /\ arrived = 0
  /\ apiCalls = 0
  /\ started = 0
  /\ classifierAvailable = FALSE
  /\ run = [r \in Runs |-> IdleRun]

pipelineVars == <<disk, ledger, now, origin, arrived, apiCalls, started,
                  classifierAvailable, run>>

\* the application of op to input in, not yet evaluated
CallOf(op, in) == [op |-> op, in |-> in, done |-> FALSE, out |-> <<>>]

\* extensions, normalized labels and confidences of the zero-shot model,
\* and keyword scores of the fallback classifier
Extensions    == {"log", "txt", "pdf", "csv", "png"}
AiLabels      == {"log", "cv", "report", "other_document"}
AiConfs       == {4, 6, 9}
KeywordScores == {0, 1, 7}

\* inputs of process_file: the extension, whether the read succeeds, the
\* state of the classifier, and what the content gives.  A text has no
\* columns; an empty text has no marker and no keyword.
ProcessFileInputs ==
  { in \in [ ext : Extensions, readOk : BOOLEAN, classifier : ClassifierStates,
             textEmpty : BOOLEAN, raises : BOOLEAN,
             aiLabel : AiLabels, aiConf : AiConfs,
             fastMarker : BOOLEAN, marker : BOOLEAN, logCols : BOOLEAN,
             log_score : KeywordScores, cv_score : {0, 2} ] :
      /\ in.logCols => ExtKind(in.ext) = "table"
      /\ in.textEmpty => /\ ExtKind(in.ext) = "text"
                         /\ ~in.marker /\ ~in.fastMarker
                         /\ in.log_score = 0 /\ in.cv_score = 0 }

InitClassify ==
  /\ Quiescent
  /\ call \in {CallOf("process_file", in) : in \in ProcessFileInputs}

\* the body of the ingestion loop for one file "f" whose move succeeds
\* (main.py:58-113): process_file, then the file stays where it is or is
\* moved under the new name "u1"
ClassifyAndRoute ==
  /\ call.op = "process_file"
  /\ ~call.done
  /\ LET pf == process_file(call.in)
     IN call' = [call EXCEPT
                   !.done = TRUE,
                   !.out = [content |-> pf.content,
                            file_type |-> pf.file_type,
                            cls |-> pf.cls,
                            path |-> IF pf.content = "None"
                                     THEN IncomingPath("f")
                                     ELSE Route(pf.file_type, "u1")]]
  /\ UNCHANGED pipelineVars

NextClassify == ClassifyAndRoute

SpecClassify == InitClassify /\ [][NextClassify]_vars

\* largest number of summaries handed to cluster_files
MaxVectors == 3

\* the summaries of the files of the universe
SummarySamples == {Content(name).summary : name \in Names}

\* file_summaries: a dictionary from distinct stored names to summaries, in
\* insertion order
FileSummaryInputs ==
  UNION { { [i \in 1..n |-> [file_name |-> UuidNames[i], summary |-> f[i]]] :
              f \in [1..n -> SummarySamples] } : n \in 0..MaxVectors }

InitCluster ==
  /\ Quiescent
  /\ call \in {CallOf("cluster_files", fs) : fs \in FileSummaryInputs}

\* cluster_files on the embeddings of the summaries, then the category
\* column (orchestrator.py:123-131)
ClusterAndCategorize ==
  /\ call.op = "cluster_files"
  /\ ~call.done
  /\ \E labels \in ClusterLabelings(Len(call.in)) :
       call' = [call EXCEPT !.done = TRUE,
                            !.out = ClusteredRows(call.in, labels)]
  /\ UNCHANGED pipelineVars

NextCluster == ClusterAndCategorize

SpecCluster == InitCluster /\ [][NextCluster]_vars

\* largest number of words of a summary handed to determine_category
MaxWords == 4

\* words of lower-cased summaries: domain keywords, stop words, and words
\* that are neither
Vocabulary == {"contract", "kernel", "boot", "login", "audit", "policy",
               "services", "capital", "keywords", "total", "firewall",
               "keywords:", "db"}

SummaryInputs == UNION {[1..n -> Vocabulary] : n \in 0..MaxWords}

InitCategory ==
  /\ Quiescent
  /\ call \in {CallOf("determine_category", text) : text \in SummaryInputs}

Categorize ==
  /\ call.op = "determine_category"
  /\ ~call.done
  /\ call' = [call EXCEPT !.done = TRUE, !.out = determine_category(call.in)]
  /\ UNCHANGED pipelineVars

NextCategory == Categorize

SpecCategory == InitCategory /\ [][NextCategory]_vars

\* largest number of rows of the report read by _resolve_path
MaxRows == 3

\* file names of the report: "A" and "B" are substrings of "AB"
ReportNames == {"A", "B", "AB"}

\* Series.str.contains(target, case=False)
ContainsName(name, target) == name = target \/ (name = "AB" /\ target \in {"A", "B"})

ReportRows ==
  [Original_Filename : ReportNames, Stored_Filename : ReportNames \cup {"N/A"}]

ResolveInputs ==
  UNION { [rows : [1..n -> ReportRows], filename : ReportNames] : n \in 0..MaxRows }

\* the application of _resolve_path with the locals of its loop; final_row
\* is the index of the row, 0 for None; pc is "loop" in the while loop and
\* "paths" after it; final_path, raw_path and files are the path columns of
\* final_row and the files that exist, as read after the loop
InitResolve ==
  /\ Quiescent
  /\ call \in { [op |-> "_resolve_path", in |-> in, done |-> FALSE, out |-> <<>>,
                  pc |-> "loop",
                  current_target |-> in.filename, visited |-> {},
                  final_row |-> 0, iterations |-> 0,
                  final_path |-> <<>>, raw_path |-> <<>>, files |-> {}] :
                in \in ResolveInputs }

\* faulty search: the stored name is looked up in every row
AllRows(rows, row) == 1..Len(rows)

\* df.iloc[row.name + 1:]: the rows after this one
LaterRows(rows, row) == (row + 1)..Len(rows)

\* faulty selection: the first matching row
FirstMatch(match) == CHOOSE i \in match : \A j \in match : i <= j

\* match.iloc[-1]: the last matching row
LastMatch(match) == CHOOSE i \in match : \A j \in match : j <= i

\* the results (path, error): a path, or None with a message
Found(path)  == [path |-> path, error |-> "None"]
NotFound     == [path |-> <<"None">>, error |-> "not found in metadata records"]
EmptyReport  == [path |-> <<"None">>, error |-> "metadata report is empty"]
MissingFile  == [path |-> <<"None">>, error |-> "file object is missing from disk"]

\* df.empty: the function returns before the loop
ResolveEmptyReport ==
  /\ call.op = "_resolve_path"
  /\ ~call.done
  /\ call.in.rows = <<>>
  /\ call' = [call EXCEPT !.done = TRUE, !.out = EmptyReport]
  /\ UNCHANGED pipelineVars

\* one pass of the while loop
ResolveIteration ==
  /\ call.op = "_resolve_path"
  /\ ~call.done
  /\ call.pc = "loop"
  /\ call.in.rows # <<>>
  /\ call.iterations <= MaxRows + 1
  /\ LET rows == call.in.rows
         target == call.current_target
         exact == {i \in 1..Len(rows) : rows[i].Original_Filename = target}
         match == IF exact # {} THEN exact
                  ELSE {i \in 1..Len(rows) :
                          ContainsName(rows[i].Original_Filename, target)}
         row == LastMatch(match)
         next_target == rows[row].Stored_Filename
     IN IF target \in call.visited
        THEN call' = [call EXCEPT !.pc = "paths"]
        ELSE IF match = {}
        THEN IF call.visited = {}
             THEN call' = [call EXCEPT !.done = TRUE, !.out = NotFound,
                                       !.visited = @ \cup {target},
                                       !.iterations = @ + 1]
             ELSE call' = [call EXCEPT !.pc = "paths",
                                       !.visited = @ \cup {target},
                                       !.iterations = @ + 1]
        ELSE IF \/ next_target = "N/A"
                \/ next_target = target
                \/ \A j \in LaterRows(rows, row) :
                     rows[j].Original_Filename # next_target
        THEN call' = [call EXCEPT !.pc = "paths",
                                  !.final_row = row,
                                  !.visited = @ \cup {target},
                                  !.iterations = @ + 1]
        ELSE call' = [call EXCEPT !.final_row = row,
                                  !.current_target = next_target,
                                  !.visited = @ \cup {target},
                                  !.iterations = @ + 1]
  /\ UNCHANGED pipelineVars

\* faulty choice: the raw path is preferred
SelectRawFirst(final_path, raw_path, files) ==
  IF raw_path # NA /\ raw_path \in files THEN Found(raw_path)
  ELSE IF final_path # Pending /\ final_path \in files THEN Found(final_path)
  ELSE MissingFile

\* lines 66-75: Final_Path if it is set and exists, then Raw_Storage_Path
\* if it is set and exists, else the error
SelectPath(final_path, raw_path, files) ==
  IF final_path # Pending /\ final_path \in files THEN Found(final_path)
  ELSE IF raw_path # NA /\ raw_path \in files THEN Found(raw_path)
  ELSE MissingFile

\* after the loop: the path columns of final_row are read and the paths
\* are looked up on disk
ResolvePaths ==
  /\ call.op = "_resolve_path"
  /\ ~call.done
  /\ call.pc = "paths"
  /\ IF call.final_row = 0
     THEN call' = [call EXCEPT !.done = TRUE, !.out = NotFound]
     ELSE \E final_path \in {Pending, ProcessedPath("app_log", "u1")},
             raw_path \in {NA, StagingPath("u1")},
             files \in SUBSET {ProcessedPath("app_log", "u1"), StagingPath("u1")} :
            call' = [call EXCEPT !.done = TRUE,
                                 !.final_path = final_path,
                                 !.raw_path = raw_path,
                                 !.files = files,
                                 !.out = SelectPath(final_path, raw_path, files)]
  /\ UNCHANGED pipelineVars

NextResolve == ResolveEmptyReport \/ ResolveIteration \/ ResolvePaths

SpecResolve == InitResolve /\ [][NextResolve]_vars

\* lengths of the prefixes the summarizer falls back to
CandidatePrefix == 200
BackupPrefix    == 500

\* a document is described by its length in characters and by the number
\* of whitespace characters it starts with; it is blank when they are equal
Documents ==
  { d \in [len : {0, 150, 400, 600}, leading : {0, 150, 550}] : d.leading <= d.len }

IsBlank(d) == d.leading = d.len

\* doc[:n].replace("\n", " "): a prefix, newlines flattened
Prefix(d, n) ==
  [kind |-> "prefix", len |-> Min(d.len, n), leading |-> Min(d.leading, n)]

EmptyResult == [kind |-> "prefix", len |-> 0, leading |-> 0]

\* "Total Entries: N. Keywords: k1, k2, ..."
KeywordSummary == [kind |-> "keywords", len |-> 40, leading |-> 0]

\* where the summarizer fails: nowhere; while the text of a table is built
\* (before doc_backup is set); in CountVectorizer (ValueError); no candidate
\* is left; in the embedding or the MMR selection
Failures == {"none", "doc", "vectorizer", "nocandidates", "embed"}

\* summarize_content on content that is not None
summarize_content(doc, fail) ==
  IF fail = "doc" THEN EmptyResult
  ELSE IF IsBlank(doc) THEN EmptyResult
  ELSE IF fail \in {"vectorizer", "nocandidates"} THEN Prefix(doc, CandidatePrefix)
  ELSE IF fail = "embed" THEN Prefix(doc, BackupPrefix)
  ELSE KeywordSummary

\* summarize_file: the staged file is read again by process_file, which
\* gives content ("ok"), gives None ("none") or raises ("raises")
summarize_file(read, doc, fail) ==
  IF read = "raises" THEN EmptyResult
  ELSE IF read = "none" THEN EmptyResult
  ELSE summarize_content(doc, fail)

\* `if summary and summary.strip()`: the summary enters file_summaries
Contributes(summary) == summary.len > 0 /\ summary.leading < summary.len

SummarizeInputs == [read : {"ok", "none", "raises"}, doc : Documents, fail : Failures]

InitSummarize ==
  /\ Quiescent
  /\ call \in {CallOf("summarize_file", in) : in \in SummarizeInputs}

SummarizeFile ==
  /\ call.op = "summarize_file"
  /\ ~call.done
  /\ call' = [call EXCEPT
                !.done = TRUE,
                !.out = summarize_file(call.in.read, call.in.doc, call.in.fail)]
  /\ UNCHANGED pipelineVars

NextSummarize == SummarizeFile

SpecSummarize == InitSummarize /\ [][NextSummarize]_vars

\* largest number of threads that request a model at the same time
MaxThreads == 3

\* the summarizer workers, the upload request and the background run
Threads == 1..MaxThreads

\* model names passed to EmbeddingEngine
ModelNames == {"all-MiniLM-L6-v2", "all-mpnet-base-v2"}

\* what a thread requests: the classifier, or the embedding model of a name
Requests == {<<"get_classifier", "bart-large-mnli">>}
              \cup {<<"EmbeddingEngine", m>> : m \in ModelNames}

\* the objects are numbered in the order of their construction; 0 is None
\* (_classifier_instance) and "not in the cache" (_model_cache)
InitSingleton ==
  /\ Quiescent
  /\ call \in { [op |-> "singleton",
                 classifier_instance |-> 0,
                 model_cache |-> [m \in ModelNames |-> 0],
                 constructed |-> 0,
                 loaded |-> [m \in ModelNames |-> 0],
                 thread |-> [t \in Threads |->
                               [request |-> req[t], pc |-> "start", ret |-> 0]]] :
                req \in [Threads -> Requests] }

\* get_classifier, line 224: `if _classifier_instance is None`
GetClassifierTest(t) ==
  /\ call.op = "singleton"
  /\ call.thread[t].request[1] = "get_classifier"
  /\ call.thread[t].pc = "start"
  /\ call' = [call EXCEPT !.thread[t].pc =
                IF call.classifier_instance = 0 THEN "construct" ELSE "return"]
  /\ UNCHANGED pipelineVars

\* line 225: FileTypeClassifier() is constructed (the model is loaded) and
\* bound to the global
GetClassifierConstruct(t) ==
  /\ call.op = "singleton"
  /\ call.thread[t].request[1] = "get_classifier"
  /\ call.thread[t].pc = "construct"
  /\ call' = [call EXCEPT !.constructed = @ + 1,
                          !.classifier_instance = call.constructed + 1,
                          !.thread[t].pc = "return"]
  /\ UNCHANGED pipelineVars

\* line 227: `return _classifier_instance`
GetClassifierReturn(t) ==
  /\ call.op = "singleton"
  /\ call.thread[t].request[1] = "get_classifier"
  /\ call.thread[t].pc = "return"
  /\ call' = [call EXCEPT !.thread[t].pc = "done",
                          !.thread[t].ret = call.classifier_instance]
  /\ UNCHANGED pipelineVars

\* EmbeddingEngine.__init__, line 11: `if model_name not in _model_cache`
EmbeddingTest(t) ==
  /\ call.op = "singleton"
  /\ call.thread[t].request[1] = "EmbeddingEngine"
  /\ call.thread[t].pc = "start"
  /\ call' = [call EXCEPT !.thread[t].pc =
                IF call.model_cache[call.thread[t].request[2]] = 0
                THEN "construct" ELSE "return"]
  /\ UNCHANGED pipelineVars

\* line 13: SentenceTransformer(model_name) is loaded and stored in the cache
EmbeddingLoad(t) ==
  /\ call.op = "singleton"
  /\ call.thread[t].request[1] = "EmbeddingEngine"
  /\ call.thread[t].pc = "construct"
  /\ LET m == call.thread[t].request[2]
     IN call' = [call EXCEPT !.loaded[m] = @ + 1,
                             !.model_cache[m] = call.loaded[m] + 1,
                             !.thread[t].pc = "return"]
  /\ UNCHANGED pipelineVars

\* line 17: `self.model = _model_cache[model_name]`
EmbeddingBind(t) ==
  /\ call.op = "singleton"
  /\ call.thread[t].request[1] = "EmbeddingEngine"
  /\ call.thread[t].pc = "return"
  /\ call' = [call EXCEPT !.thread[t].pc = "done",
                          !.thread[t].ret = call.model_cache[call.thread[t].request[2]]]
  /\ UNCHANGED pipelineVars

\* the threads interleave between the statements: no lock is taken
NextSingleton ==
  \E t \in Threads :
    \/ GetClassifierTest(t)
    \/ GetClassifierConstruct(t)
    \/ GetClassifierReturn(t)
    \/ EmbeddingTest(t)
    \/ EmbeddingLoad(t)
    \/ EmbeddingBind(t)

SpecSingleton == InitSingleton /\ [][NextSingleton]_vars

\* default of the parameter limit of get_file_metadata
QueryLimit == 100

\* the positions of rows sorted by Created_On, latest first
RECURSIVE ByCreatedOnDesc(_, _)
ByCreatedOnDesc(rows, idxs) ==
  IF idxs = {} THEN <<>>
  ELSE LET i == CHOOSE k \in idxs :
                  \A j \in idxs : \/ rows[j].Created_On < rows[k].Created_On
                                  \/ (rows[j].Created_On = rows[k].Created_On /\ k <= j)
       IN <<i>> \o ByCreatedOnDesc(rows, idxs \ {i})

\* get_file_metadata(file_id=...): the rows with this File_ID (every row
\* when file_id is empty), latest first, at most limit of them
get_file_metadata(rows, file_id) ==
  LET idxs == {i \in 1..Len(rows) : file_id = <<>> \/ rows[i].File_ID = file_id}
      order == ByCreatedOnDesc(rows, idxs)
  IN [k \in 1..Min(Len(order), QueryLimit) |-> rows[order[k]]]

\* stored names and categories of the rows the table holds before the test
StoredNames == {"abc123.txt", "u1"}

\* entries passed to insert_file_metadata: the entry of the store's test
\* built at second ts (File_ID and Created_On), with a stored name
StoreEntry(ts, stored) ==
  [TestEntry(ts, ts) EXCEPT !.Stored_Filename = stored]

\* tables File_Master the test can find: rows of earlier runs of the test,
\* updated or not, with distinct File_IDs
StoreTables ==
  UNION { { t \in [1..n -> { [StoreEntry(ts, st) EXCEPT !.Category = c]
                               : ts \in 0..MaxClock, st \in StoredNames,
                                 c \in {"Pending", "app_log"} }] :
              \A i, j \in 1..n : i # j => t[i].File_ID # t[j].File_ID } :
          n \in 0..MaxApiCalls + 1 }

\* run_test (verify_file_master_db.py:21-80) on a table, with an entry
\* and a partial update
InitStore ==
  /\ disk = {}
  /\ ledger \in StoreTables
  /\ now = 0
  /\ origin = <<>>
  /\ arrived = 0
  /\ apiCalls = 0
  /\ started = 0
  /\ classifierAvailable = FALSE
  /\ run = [r \in Runs |-> IdleRun]
  /\ call \in { [op |-> "run_test", pc |-> "insert",
                 entry |-> StoreEntry(ts, st),
                 updates |-> u,
                 results |-> <<>>, updated_results |-> <<>>] :
                ts \in 0..MaxClock, st \in StoredNames, u \in ApiUpdates }

\* step 2: insert_file_metadata(test_entry)
TestInsert ==
  /\ call.op = "run_test"
  /\ call.pc = "insert"
  /\ ledger' = insert_file_metadata(ledger, call.entry)
  /\ call' = [call EXCEPT !.pc = "query"]
  /\ UNCHANGED <<disk, now, origin, arrived, apiCalls, started, classifierAvailable, run>>

\* step 3: get_file_metadata(file_id=test_entry['File_ID']); the test ends
\* here unless exactly one record is returned
TestQuery ==
  /\ call.op = "run_test"
  /\ call.pc = "query"
  /\ LET results == get_file_metadata(ledger, call.entry.File_ID)
     IN call' = [call EXCEPT !.results = results,
                             !.pc = IF Len(results) = 1 THEN "update" ELSE "done"]
  /\ UNCHANGED pipelineVars

\* step 4: update_file_metadata(test_entry['Stored_Filename'], updates)
TestUpdate ==
  /\ call.op = "run_test"
  /\ call.pc = "update"
  /\ ledger' = update_file_metadata(ledger, call.entry.Stored_Filename, call.updates)
  /\ call' = [call EXCEPT !.pc = "verify"]
  /\ UNCHANGED <<disk, now, origin, arrived, apiCalls, started, classifierAvailable, run>>

\* step 5: the entry is queried again
TestVerify ==
  /\ call.op = "run_test"
  /\ call.pc = "verify"
  /\ call' = [call EXCEPT
                !.updated_results = get_file_metadata(ledger, call.entry.File_ID),
                !.pc = "done"]
  /\ UNCHANGED pipelineVars

NextStore == TestInsert \/ TestQuery \/ TestUpdate \/ TestVerify

SpecStore == InitStore /\ [][NextStore]_vars

\* a row of File_Master created as the i-th, for a file stored under this
\* name, before or after an update has marked it Processed
LedgerRow(i, stored, processed) ==
  [ File_ID |-> BatchId(i),
    Original_Filename |-> "a.log",
    Stored_Filename |-> stored,
    Source_Type |-> "Local Upload",
    Raw_Storage_Path |-> StagingPath(stored),
    Final_Path |-> IF processed THEN ProcessedPath("system_log", stored) ELSE Pending,
    Category |-> IF processed THEN "system_log" ELSE "Pending",
    Cluster_ID |-> IF processed THEN "-1" ELSE "N/A",
    Summary |-> IF processed THEN Content("a.log").summary ELSE NA,
    Status |-> IF processed THEN "Processed" ELSE "Success",
    Created_On |-> i ]

\* tables update_master_report can find: a stored name may occur in more
\* than one row
UpdateTables ==
  UNION { { [i \in 1..n |-> LedgerRow(i, st[i], pr[i])] :
              st \in [1..n -> {"u1", "u2"}], pr \in [1..n -> BOOLEAN] } :
          n \in 0..MaxRows }

\* the updates passed to update_master_report: the update of a moved file,
\* and an update with the Category only; the name is one of the table, one
\* of no row, or missing
ReportUpdates ==
  { UpdateOf([file_name |-> name, Category |-> "firewall", cluster_id |-> "0",
              summary |-> Content("API_b.log").summary],
             ProcessedPath("firewall", name)) : name \in {"u1", "u3", ""} }
  \cup { [Stored_Filename |-> name, Category |-> "governance_log"] :
           name \in {"u1", "u3", ""} }

InitUpdate ==
  /\ disk = {}
  /\ ledger \in UpdateTables
  /\ now = 0
  /\ origin = <<>>
  /\ arrived = 0
  /\ apiCalls = 0
  /\ started = 0
  /\ classifierAvailable = FALSE
  /\ run = [r \in Runs |-> IdleRun]
  /\ call \in { CallOf("update_master_report", updates) :
                  updates \in UNION {[1..n -> ReportUpdates] : n \in 0..MaxRuns} }

\* update_master_report(updates): nothing is done for an empty list;
\* otherwise the updates are applied in one session, which is committed, or
\* rolled back when the store fails after k of them
ApplyReport ==
  /\ call.op = "update_master_report"
  /\ ~call.done
  /\ \E k \in 0..Len(call.in), failed \in BOOLEAN :
       /\ failed \/ k = Len(call.in)
       /\ failed => call.in # <<>>
       /\ LET session == ApplyUpdates(ledger, call.in, k)
          IN ledger' = IF failed THEN Rollback(ledger, session)
                       ELSE Commit(ledger, session)
       /\ call' = [call EXCEPT !.done = TRUE,
                               !.out = IF failed THEN "failed" ELSE "ok"]
  /\ UNCHANGED <<disk, now, origin, arrived, apiCalls, started, classifierAvailable, run>>

NextUpdate == ApplyReport

SpecUpdate == InitUpdate /\ [][NextUpdate]_vars

----------------------------------------------------------------------------
(* Properties *)

\* the run has finished the initial metadata step
PastMeta(r) == run[r].pc \notin {"idle", "ingest", "meta"}

\* the rows created since run r started
NewRows(r) == {j \in 1..Len(ledger) : j > run[r].baseLen}

\* C1: total coverage: once a run has completed, every file that was in
\* incoming/ when it started has exactly one ledger row created by that run,
\* with a status of the ledger.
C1_TotalCoverage ==
  \A r \in Runs :
    run[r].pc = "done" =>
      \A i \in 1..Len(run[r].files_list) :
        /\ Cardinality({j \in NewRows(r) :
                          ledger[j].Original_Filename = run[r].files_list[i]}) = 1
        /\ \A j \in NewRows(r) :
             ledger[j].Original_Filename = run[r].files_list[i]
               => ledger[j].Status \in {"Success", "Failed", "Processed"}

\* position of a status in pending -> {failed | success} -> processed
StatusRank(status) ==
  CASE status = "Pending"   -> 0
    [] status = "Failed"    -> 1
    [] status = "Success"   -> 1
    [] status = "Processed" -> 2

\* C2: in every step, every ledger row is kept and its Status does not
\* move back in pending -> {failed | success} -> processed.
C2_StatusOnlyForward ==
  [][\A i \in 1..Len(ledger) :
       /\ i <= Len(ledger')
       /\ StatusRank(ledger'[i].Status) >= StatusRank(ledger[i].Status)]_vars

\* C3: no two ledger rows have the same Stored_Filename.
C3_StoredFilenameUnique ==
  \A i, j \in 1..Len(ledger) :
    i # j => ledger[i].Stored_Filename # ledger[j].Stored_Filename

\* C4: in every step, a Final_Path or a Category that is not pending keeps
\* its value.
C4_WriteOnce ==
  [][\A i \in 1..Len(ledger) :
       /\ i <= Len(ledger')
       /\ ledger[i].Final_Path # Pending
            => ledger'[i].Final_Path = ledger[i].Final_Path
       /\ ledger[i].Category # "Pending"
            => ledger'[i].Category = ledger[i].Category]_vars

\* C5: when two files of one run were given the same File_ID, every file of
\* that run still has its own ledger row.
C5_SharedBatchIdKeepsRows ==
  \A r \in Runs :
    (/\ PastMeta(r)
     /\ \E i, j \in 1..Len(run[r].fileIds) :
          i # j /\ run[r].fileIds[i] = run[r].fileIds[j])
      => \A i \in 1..Len(run[r].results) :
           \E j \in NewRows(r) : ledger[j].Original_Filename = run[r].results[i]

\* a ledger row exists for the file that was renamed to this stored name
Recorded(stored) ==
  \E j \in 1..Len(ledger) : ledger[j].Original_Filename = OriginOf(stored)

\* C6: while a run summarizes, clusters, moves or updates, every file it
\* staged has a ledger row, and so has every file an update refers to.
C6_RecordBeforeUse ==
  \A r \in Runs :
    /\ run[r].pc \in {"list", "summarize", "cluster", "move", "small", "smove", "update"}
         => \A stored \in run[r].log_files : Recorded(stored)
    /\ \A k \in 1..Len(run[r].updates) : Recorded(run[r].updates[k].Stored_Filename)

\* C7: no partial-batch clustering: whenever a large-mode run embeds or has
\* computed cluster rows, every summarization task of its listing has
\* returned.
C7_NoPartialBatchClustering ==
  \A r \in Runs :
    (run[r].mode = "large" /\ (run[r].pc = "cluster" \/ run[r].rows # <<>>))
      => /\ Len(run[r].tasks) = Len(run[r].files_to_process)
         /\ \A i \in 1..Len(run[r].tasks) : run[r].tasks[i].st = "done"

\* C7 witness: the rows of a batch summarized by the pool have been computed
C7_Witness ==
  \E r \in Runs :
    /\ run[r].mode = "large"
    /\ run[r].pc = "move"
    /\ Len(run[r].tasks) >= 2
    /\ Len(run[r].rows) >= 1

\* C8: partial-failure isolation: no run ends with an exception, and once
\* ingestion is over every file of the batch was either skipped for its own
\* error or moved out of incoming/.
C8_PartialFailureIsolation ==
  \A r \in Runs :
    /\ run[r].pc # "aborted"
    /\ run[r].pc \notin {"idle", "ingest"}
         => \A i \in 1..Len(run[r].files_list) :
              \/ run[r].files_list[i] \in run[r].skipped
              \/ IncomingPath(run[r].files_list[i]) \notin disk

\* C9: a failed pass of update_master_report is caught and changes no
\* ledger row: the run goes on to its end and the ledger is as before.
C9_FailedUpdateKeepsLedger ==
  [][\A r \in Runs :
       (run[r].pc = "update" /\ run'[r].updResult = "failed")
         => /\ ledger' = ledger
            /\ run'[r].pc = "done"]_vars

\* C9 witness: a pass failed after applying an update in its session, and
\* the row the update names is still not processed
C9_Witness ==
  \E r \in Runs :
    /\ run[r].updResult = "failed"
    /\ run[r].updApplied >= 1
    /\ \E j \in 1..Len(ledger) :
         /\ ledger[j].Stored_Filename = run[r].updates[1].Stored_Filename
         /\ ledger[j].Status = "Success"
         /\ ledger[j].Final_Path = Pending

\* C10: when a run completes, staging/ is empty, and every file the run
\* staged is in a category folder and its ledger row is Processed.
C10_StagedFilesFinalized ==
  \A r \in Runs :
    run[r].pc = "done" =>
      /\ ListStaging(disk) = <<>>
      /\ \A stored \in run[r].log_files :
           /\ \E p \in disk : p[1] = "processed" /\ Basename(p) = stored
           /\ \E j \in 1..Len(ledger) :
                /\ ledger[j].Stored_Filename = stored
                /\ ledger[j].Status = "Processed"

\* process_file was applied to a file that could be read
Classified == call.op = "process_file" /\ call.done /\ call.out.content # "None"

\* C11: tabular fast path: a table that was read and has a column name of
\* the log-indicator vocabulary is typed log and is moved to staging.
C11_TabularFastPath ==
  (Classified /\ call.out.content = "table" /\ call.in.logCols)
    => /\ call.out.file_type = "log"
       /\ call.out.path = StagingPath("u1")

\* the classification ran and resolved to log before the guard
ResolvedLog ==
  /\ Classified
  /\ call.in.classifier # "none" /\ ~call.in.textEmpty /\ ~call.in.raises
  /\ IF call.out.content = "table"
     THEN call.in.logCols \/ call.out.cls[1] \in log_types
     ELSE call.out.cls[1] = "log"

C13_UnavailableClassifier ==
  (Classified /\ call.out.content = "text" /\ call.in.classifier # "ai")
    => /\ call.out.file_type = "log"
       /\ call.out.path = StagingPath("u1")

C15_ClusteringFallback ==
  (call.op = "cluster_files" /\ call.done /\ Len(call.in) < 3)
    => /\ Len(call.out) = Len(call.in)
       /\ \A i \in 1..Len(call.in) :
            /\ call.out[i].file_name = call.in[i].file_name
            /\ call.out[i].summary = call.in[i].summary
            /\ call.out[i].cluster_id = "-1"
            /\ call.out[i].Category = determine_category(call.in[i].summary)

\* C15 witness: two files with different summaries were given the noise
\* label and different categories
C15_Witness ==
  /\ call.op = "cluster_files"
  /\ call.done
  /\ Len(call.in) = 2
  /\ call.in[1].summary # call.in[2].summary
  /\ call.out[1].cluster_id = "-1" /\ call.out[2].cluster_id = "-1"
  /\ call.out[1].Category # call.out[2].Category

\* the highest keyword hit count of a domain in the text
HighestScore(text) ==
  CHOOSE m \in 0..Len(text) :
    /\ \A i \in 1..Len(DomainOrder) : Score(DomainOrder[i], text) <= m
    /\ m = 0 \/ \E i \in 1..Len(DomainOrder) : Score(DomainOrder[i], text) = m

\* C16: when some domain keyword occurs in the summary, determine_category
\* returns the domain with the highest hit count that is declared first in
\* DOMAIN_KEYWORDS: its count is the highest and every domain declared
\* before it has a lower count.
C16_CategoryDeterminism ==
  (call.op = "determine_category" /\ call.done /\ HighestScore(call.in) > 0)
    => \E i \in 1..Len(DomainOrder) :
         /\ call.out = DomainOrder[i]
         /\ Score(DomainOrder[i], call.in) = HighestScore(call.in)
         /\ \A j \in 1..(i - 1) :
              Score(DomainOrder[j], call.in) < HighestScore(call.in)

\* C16 witness: two domains tie for the highest count and the one
\* declared first was returned
C16_Witness ==
  /\ call.op = "determine_category"
  /\ call.done
  /\ \E i, j \in 1..Len(DomainOrder) :
       /\ i < j
       /\ Score(DomainOrder[i], call.in) = HighestScore(call.in)
       /\ Score(DomainOrder[j], call.in) = HighestScore(call.in)
       /\ HighestScore(call.in) > 0
       /\ call.out = DomainOrder[i]

\* C17: path resolution terminates: on a report of N rows the loop of
\* _resolve_path makes at most N passes, whatever the rows and the name.
C17_ResolveTerminates ==
  call.op = "_resolve_path" => call.iterations <= Len(call.in.rows)

\* C17 witness: on the cycle "A stored as B, B stored as A" the resolution
\* of A ended after two passes
C17_Witness ==
  /\ call.op = "_resolve_path"
  /\ call.done
  /\ call.in.filename = "A"
  /\ call.in.rows = << [Original_Filename |-> "A", Stored_Filename |-> "B"],
                       [Original_Filename |-> "B", Stored_Filename |-> "A"] >>
  /\ call.iterations = 2

\* process_file classifies the file of this name as a document
IsDocument(name) == FileTypeOf(name, classifierAvailable) \in DocumentTypes

\* C18: routed documents bypass the AI stages: a file classified as a
\* document is never in staging/, is never listed, summarized, clustered or
\* updated by any run, a document a run has routed is in processed/<type>/,
\* and the Summary and Cluster_ID of a document's ledger row stay "N/A".
C18_DocumentsBypassAI ==
  /\ \A k \in 1..Len(origin) :
       IsDocument(origin[k]) =>
         /\ StagingPath(UuidNames[k]) \notin disk
         /\ \A r \in Runs :
              /\ UuidNames[k] \notin Range(run[r].files_to_process)
              /\ \A i \in 1..Len(run[r].file_summaries) :
                   run[r].file_summaries[i].file_name # UuidNames[k]
              /\ \A i \in 1..Len(run[r].rows) :
                   run[r].rows[i].file_name # UuidNames[k]
              /\ \A i \in 1..Len(run[r].updates) :
                   run[r].updates[i].Stored_Filename # UuidNames[k]
  /\ \A r \in Runs : \A d \in run[r].document_files :
       /\ d.path = ProcessedPath(d.type, d.new_name)
       /\ d.path \in disk
  /\ \A j \in 1..Len(ledger) :
       IsDocument(ledger[j].Original_Filename) =>
         /\ ledger[j].Summary = NA
         /\ ledger[j].Cluster_ID = "N/A"

\* C18 witness: a CV was routed to processed/cv/ and has its row, while a
\* log of the ledger went through the AI stages and is Processed
C18_Witness ==
  /\ classifierAvailable
  /\ \E p \in disk : p[1] = "processed" /\ p[2] = "cv"
  /\ \E j \in 1..Len(ledger) :
       ledger[j].Original_Filename = "c.txt" /\ ledger[j].Summary = NA
  /\ \E i \in 1..Len(ledger) : ledger[i].Status = "Processed"

\* C19: file isolation: after a completed large-mode run, every file the
\* run staged has a ledger row created by the run, and no document the run
\* routed to processed/<type>/ has any ledger row.
C19_FileIsolation ==
  \A r \in Runs :
    (run[r].pc = "done" /\ run[r].mode = "large") =>
      /\ \A e \in run[r].file_tracking :
           \E j \in NewRows(r) : ledger[j].Original_Filename = e.name
      /\ \A d \in run[r].document_files :
           \A j \in 1..Len(ledger) : ledger[j].Original_Filename # d.name

\* C20: for a staged file whose content is not blank the summarizer
\* returns a result that is not empty and enters clustering, and when a
\* step of it failed the result is a prefix of at most 500 characters of
\* the content.
C20_SummarizerNeverEmpty ==
  (call.op = "summarize_file" /\ call.done /\ ~IsBlank(call.in.doc))
    => /\ call.out.len > 0
       /\ Contributes(call.out)
       /\ (call.in.read # "ok" \/ call.in.fail # "none")
            => /\ call.out.kind = "prefix"
               /\ call.out.len <= 500
               /\ call.out.len <= call.in.doc.len

\* C21: lazy singleton: the classifier is constructed at most once and each
\* embedding model is loaded at most once, and all threads that asked for
\* the classifier, or for the same model name, were given the same object.
C21_LazySingleton ==
  call.op = "singleton" =>
    /\ call.constructed <= 1
    /\ \A m \in ModelNames : call.loaded[m] <= 1
    /\ \A s, t \in Threads :
         (/\ call.thread[s].pc = "done" /\ call.thread[t].pc = "done"
          /\ call.thread[s].request = call.thread[t].request)
           => call.thread[s].ret = call.thread[t].ret

\* C22: ledger store round trip: after the insert of an entry, the query by
\* its File_ID returns exactly one record, with the fields of the entry;
\* after the update by its Stored_Filename, the same query returns one
\* record whose updated fields have the new values and whose other fields
\* are those of the entry.
C22_StoreRoundTrip ==
  call.op = "run_test" =>
    /\ call.pc \in {"update", "verify", "done"}
         => /\ Len(call.results) = 1
            /\ call.results[1] = call.entry
    /\ (call.pc = "done" /\ Len(call.results) = 1)
         => /\ Len(call.updated_results) = 1
            /\ \A c \in DOMAIN call.entry :
                 call.updated_results[1][c] =
                   IF c \in DOMAIN call.updates THEN call.updates[c] ELSE call.entry[c]

\* C23: structured non-log routing: a table that was read and is not typed
\* log is moved to processed/structured_data/, whatever the classifier
\* returned for it.
C23_StructuredRouting ==
  (Classified /\ call.out.content = "table" /\ call.out.file_type # "log")
    => call.out.path = ProcessedPath("structured_data", "u1")

\* determine_category was applied to a summary in which no domain keyword
\* occurs
NoDomainMatch ==
  /\ call.op = "determine_category"
  /\ call.done
  /\ \A i \in 1..Len(DomainOrder) : \A term \in DOMAIN_KEYWORDS(DomainOrder[i]) :
       \A k \in 1..Len(call.in) : ~Occurs(term, call.in[k])

StartRow(rows, name) ==
  LET exact == {i \in 1..Len(rows) : rows[i].Original_Filename = name}
      fuzzy == {i \in 1..Len(rows) : ContainsName(rows[i].Original_Filename, name)}
      match == IF exact # {} THEN exact ELSE fuzzy
  IN IF match = {} THEN 0 ELSE CHOOSE i \in match : \A j \in match : j <= i

\* the last record of the chain that starts at row i: the chain goes on to
\* the latest record after i whose Original_Filename is the Stored_Filename
\* of row i, while there is one
RECURSIVE ChainEnd(_, _)
ChainEnd(rows, i) ==
  LET later == {j \in (i + 1)..Len(rows) :
                  rows[j].Original_Filename = rows[i].Stored_Filename}
  IN IF later = {} THEN i
     ELSE ChainEnd(rows, CHOOSE j \in later : \A k \in later : k <= j)

C27_MostRecentOnly ==
  [][(call.op = "update_master_report" /\ ~call.done /\ call'.done) =>
       /\ Len(ledger') = Len(ledger)
       /\ \A i \in 1..Len(ledger) :
            LET named == \E k \in 1..Len(call.in) :
                           /\ call.in[k].Stored_Filename # ""
                           /\ call.in[k].Stored_Filename = ledger[i].Stored_Filename
                latest == \A j \in 1..Len(ledger) :
                            ledger[j].Stored_Filename = ledger[i].Stored_Filename
                              => ledger[j].Created_On <= ledger[i].Created_On
            IN IF named /\ latest
               THEN \A c \in DOMAIN ledger[i] :
                      c \notin {"Category", "Final_Path", "Cluster_ID", "Summary", "Status"}
                        => ledger'[i][c] = ledger[i][c]
               ELSE ledger'[i] = ledger[i]]_vars

\* C27 witness: of two rows stored as u1 the later one was updated to
\* category firewall, the earlier one is as it was
C27_Witness ==
  /\ call.op = "update_master_report"
  /\ call.done
  /\ call.out = "ok"
  /\ Len(ledger) = 3
  /\ ledger[1] = LedgerRow(1, "u1", FALSE)
  /\ ledger[2] = LedgerRow(2, "u2", FALSE)
  /\ ledger[3].Stored_Filename = "u1"
  /\ ledger[3].Category = "firewall"
  /\ ledger[3].Status = "Processed"

\* C28: processed records agree with the file system: every update a run
\* holds names a file that is at the update's Final_Path, and every ledger
\* row with Status Processed has as Final_Path the place
\* processed/<Category>/<Stored_Filename>, where the file is, and the file is
\* no longer in staging/.
C28_ProcessedAgreesWithDisk ==
  /\ \A r \in Runs : \A k \in 1..Len(run[r].updates) :
       LET u == run[r].updates[k]
       IN /\ u.Final_Path = ProcessedPath(u.Category, u.Stored_Filename)
          /\ u.Final_Path \in disk
  /\ \A j \in 1..Len(ledger) :
       ledger[j].Status = "Processed" =>
         /\ ledger[j].Final_Path =
              ProcessedPath(ledger[j].Category, ledger[j].Stored_Filename)
         /\ ledger[j].Final_Path \in disk
         /\ StagingPath(ledger[j].Stored_Filename) \notin disk

\* C28 witness: of two staged files of one run the move of one failed: it
\* is still in staging/ with a row that is not Processed, while the other
\* was moved and its row is Processed
C28_Witness ==
  \E i, j \in 1..Len(ledger) :
    /\ ledger[i].Status = "Processed"
    /\ ledger[i].Final_Path \in disk
    /\ ledger[j].Status = "Success"
    /\ StagingPath(ledger[j].Stored_Filename) \in disk
    /\ \E r \in Runs :
         /\ run[r].pc = "done"
         /\ \E k \in 1..Len(run[r].rows) :
              run[r].rows[k].file_name = ledger[j].Stored_Filename

\* C29: in _resolve_path every pass of the loop after the first selects a
\* row at a strictly later position than the pass before it, and no pass
\* starts with a target that was visited before: the cycle guard never
\* fires.
C29_StrictlyLaterRows ==
  [][call.op = "_resolve_path" =>
       /\ (call.iterations >= 1 /\ call'.iterations = call.iterations + 1)
            => call'.final_row > call.final_row
       /\ ~(call.pc = "loop" /\ ~call.done /\ call.current_target \in call.visited)
       /\ Cardinality(call'.visited) = call'.iterations]_vars

\* C29 witness: three passes selected the rows 1, 2 and 3 of a report and
\* visited three different names
C29_Witness ==
  /\ call.op = "_resolve_path"
  /\ call.pc = "paths"
  /\ call.iterations = 3
  /\ Cardinality(call.visited) = 3
  /\ call.final_row = 3
  /\ call.in.rows[1].Original_Filename = call.in.filename

\* the original names run r has routed out of incoming/
RoutedNames(rec) ==
  {e.name : e \in rec.file_tracking} \cup {d.name : d \in rec.document_files}

\* C30: when two runs overlap, no incoming file is routed by both, no staged
\* file is recorded as moved by both, no file listed by a run has two ledger
\* rows written since that run started, and no run is ended by an exception
\* while the file it is working on has already left incoming/
C30_NoDoubleProcessing ==
  [][ /\ \A r \in Runs :
           (run[r].pc # "aborted" /\ run'[r].pc = "aborted")
             => Exists(disk, IncomingPath(run[r].files_list[run[r].idx]))
      /\ \A r, s \in Runs :
           r # s => /\ RoutedNames(run'[r]) \cap RoutedNames(run'[s]) = {}
                    /\ \A k \in 1..Len(run'[r].updates), l \in 1..Len(run'[s].updates) :
                         run'[r].updates[k].Stored_Filename
                           # run'[s].updates[l].Stored_Filename
      /\ \A r \in Runs : \A i \in 1..Len(run'[r].files_list) :
           Cardinality({j \in 1..Len(ledger') :
                          /\ j > run'[r].baseLen
                          /\ ledger'[j].Original_Filename = run'[r].files_list[i]}) <= 1
    ]_vars

====
